---- MODULE Spec2Model ----
(***************************************************************************)
(* State-machine model of src/App.tsx: the interstitial ad gate, the       *)
(* connectivity flag, the embedded browser's load/navigation callbacks,    *)
(* pull-to-refresh with its one-second timer and the hardware back button. *)
(* Time is Date.now() in milliseconds.                                     *)
(***************************************************************************)
EXTENDS Integers, Sequences, FiniteSets, TLC

\* ---------------------------------------------------------------- bounds
MaxTicks == 2        \* clock advances per behaviour
MaxLaunches == 2     \* mounts of App within one process
MaxTimers == 2       \* pending refresh timers
MaxHist == 1         \* depth of the embedded browser's back history
ClockStart == 1000000 \* Date.now() at process start (any positive value)

\* ------------------------------------------------------ program constants
CooldownMs == 5 * 60 * 1000
RefreshWindowMs == 1000

\* one clock advance: half a cooldown window, so that two events can be at the
\* same instant, inside the window, exactly on its end, or past it
TickMs == CooldownMs \div 2

NetValues == {"true", "false", "null"}
\* line 54: Platform.OS; the hardware back button exists on Android only
PlatformOS == "android"
AllListeners == {"net", "LOADED", "CLOSED", "back"}

VARIABLES
    clock,        \* Date.now()
    launch,       \* number of the current mount of App
    mounted,      \* App is mounted
    mountPc,      \* the mount effect that runs next, "idle" once all have run
    listeners,    \* subscriptions currently registered by App's effects
    backHandler,  \* registered backAction closures with the values they captured
    startup,      \* position of initializeApp
    granted,      \* initializeApp's local `granted` ("none" outside its scope)
    adState,      \* state of interstitialRef.current inside the ad SDK
    lastAdTime,   \* module-level lastAdTime: <<>> is null, <<t>> is t
    showWebView, isLoading, canGoBack, refreshing, isConnected,
    lastNet,      \* isConnected field of the latest NetInfo notification
    wvLoad,       \* embedded browser: "none" (unmounted), "pending", "loading",
                  \* "idle" (page shown), "failed" (load error)
    wvHist,       \* entries behind the current page in the browser history
    timers,       \* pending setTimeout callbacks in scheduling order, with the time left
    alertOpen,    \* the exit prompt is on screen
    exited,       \* the app was exited (exitApp or default back behaviour)
    showLog,      \* Date.now() at every show() since process start
    outcomes      \* outcomes of the LOADED handler in the current launch

vars == <<clock, launch, mounted, mountPc, listeners, backHandler, startup,
          granted, adState, lastAdTime, showWebView, isLoading, canGoBack, refreshing,
          isConnected, lastNet, wvLoad, wvHist, timers, alertOpen, exited,
          showLog, outcomes>>

compState == <<showWebView, isLoading, canGoBack, refreshing, isConnected>>

\* ------------------------------------------------------------- operators

\* JavaScript `!lastAdTime`: null and 0 are both falsy
Falsy(t) == t = <<>> \/ t[1] = 0

\* mutant: the window written in seconds instead of milliseconds
CooldownElapsed_Seconds(t, now) == Falsy(t) \/ now - t[1] >= 5 * 60

\* line 91: !lastAdTime || now - lastAdTime >= 5 * 60 * 1000
CooldownElapsed(t, now) == Falsy(t) \/ now - t[1] >= CooldownMs

\* mutant: an unknown connectivity is taken as offline
Coalesce_NullOffline(v) == v = "true"

\* line 49: state.isConnected ?? true
Coalesce(v) == IF v = "null" THEN TRUE ELSE v = "true"

\* mutant: the two branches of the connectivity test exchanged
Render_Swapped(show, conn) ==
    IF show THEN (IF conn THEN "offline" ELSE "webview") ELSE "blank"

\* mutant: the gate test left out
Render_NoGate(show, conn) == IF conn THEN "webview" ELSE "offline"

\* lines 158-197: what the component renders above the banner
Render(show, conn) ==
    IF show THEN (IF conn THEN "webview" ELSE "offline") ELSE "blank"

View == IF mounted THEN Render(showWebView, isConnected) ELSE "none"

\* webViewRef.current is set exactly while <WebView> is rendered
WebViewRefCurrent == mounted /\ Render(showWebView, isConnected) = "webview"

\* the embedded browser after a render that may mount or unmount it
WvLoadAfter(show, conn) ==
    IF Render(show, conn) = "webview"
    THEN (IF wvLoad = "none" THEN "pending" ELSE wvLoad)
    ELSE "none"

WvHistAfter(show, conn) ==
    IF Render(show, conn) = "webview" /\ wvLoad # "none" THEN wvHist ELSE 0

\* line 144: the dependency array of the back-handler effect
BackDeps(show, back) == <<show, back>>

\* handlers and promise continuations run one at a time on the JS thread:
\* none runs while the mount effects 47-144 are still being flushed
JsIdle == mountPc = "idle"

\* lines 119-144 are a passive effect: a render that changed a dependency
\* only schedules it, and until it runs the registered backAction is the
\* closure of an earlier render
PendingBackEffect ==
    /\ mounted /\ JsIdle /\ backHandler # <<>>
    /\ BackDeps(backHandler[1].show, backHandler[1].back)
         # BackDeps(showWebView, canGoBack)

\* the scheduled effect runs: the cleanup removes the old handler (143) and
\* the effect registers a backAction closing over the rendered values (138-141)
BackEffect ==
    IF PendingBackEffect
    THEN <<[show |-> showWebView, back |-> canGoBack]>>
    ELSE backHandler

\* a handler that changes component state causes a render, and React runs a
\* scheduled passive effect before it renders again; the effect of the new
\* render is scheduled in its turn
FlushPassive == IF compState' # compState THEN BackEffect ELSE backHandler

\* the LOADED and CLOSED listeners are called by the ad SDK, outside a React
\* event handler: setShowWebView(true) (97, 107) and setIsLoading(false)
\* (98, 108). The source does not fix how the root renders, so both outcomes
\* are possible. Batched: one render, the back-handler effect is only
\* scheduled and the old closure stays registered (FlushPassive).
\* Synchronous: each update renders at once and the second render runs the
\* effect scheduled by the first, so the handler registered when the
\* listener returns closes over the new showWebView.
FlushBetweenRenders ==
    {FlushPassive} \cup
    (IF /\ showWebView' # showWebView /\ isLoading' # isLoading
        /\ backHandler # <<>>
        /\ BackDeps(showWebView', canGoBack) # BackDeps(showWebView, canGoBack)
     THEN {<<[show |-> showWebView', back |-> canGoBack]>>}
     ELSE {})

\* mutant: load() issued before initializeApp's first await
AdStateAtFirstAwait_NoAwait == "loading"

\* lines 52-73: initializeApp suspends at its first await (55 or 72) before
\* it reaches load() (73), so the first effect ends with no load requested
AdStateAtFirstAwait == "idle"

\* mutant: a denied permission treated like a failure
AfterPermission_DeniedFails(r) == IF r = "granted" THEN "awaitSdkInit" ELSE "failed"

\* lines 55-72: where initializeApp goes after PermissionsAndroid.request
\* settles; the result is only logged (65-69), a rejection goes to catch (74)
AfterPermission(r) == IF r = "throws" THEN "failed" ELSE "awaitSdkInit"

\* the interstitial covers the app; the user cannot reach the app's controls
AdOnScreen == adState = "showing"

UserCanAct == mounted /\ JsIdle /\ ~exited /\ ~AdOnScreen

\* ------------------------------------------------------------------ Init
Init ==
    /\ clock = ClockStart
    /\ launch = 1
    /\ mounted = TRUE
    /\ mountPc = "adEffect"           \* effect 47-84 has run
    /\ listeners = {"net"}
    /\ backHandler = <<>>
    /\ startup = IF PlatformOS = "android" THEN "awaitPermission" ELSE "awaitSdkInit"
    /\ granted = "none"
    /\ adState = AdStateAtFirstAwait
    /\ lastAdTime = <<>>
    /\ showWebView = FALSE
    /\ isLoading = TRUE
    /\ canGoBack = FALSE
    /\ refreshing = FALSE
    /\ isConnected = TRUE
    /\ lastNet = "none"
    /\ wvLoad = "none"
    /\ wvHist = 0
    /\ timers = <<>>
    /\ alertOpen = FALSE
    /\ exited = FALSE
    /\ showLog = <<>>
    /\ outcomes = <<>>

\* ------------------------------------------------------------- the clock
Tick ==
    /\ clock < ClockStart + MaxTicks * TickMs
    /\ clock' = clock + TickMs
    /\ timers' = [i \in 1..Len(timers) |->
                    [timers[i] EXCEPT !.left = IF @ > TickMs THEN @ - TickMs ELSE 0]]
    /\ UNCHANGED <<launch, mounted, listeners, backHandler, mountPc, startup, granted, adState,
                   lastAdTime, compState, lastNet, wvLoad, wvHist,
                   alertOpen, exited, showLog, outcomes>>

\* ------------------------------------------------- initializeApp (52-77)
PermissionResult ==
    /\ JsIdle
    /\ startup = "awaitPermission"
    /\ \E r \in {"granted", "denied", "throws"} :
         /\ startup' = AfterPermission(r)
         /\ granted' = IF r = "throws" THEN "none" ELSE r
    /\ UNCHANGED <<clock, launch, mounted, listeners, backHandler, mountPc,
                   adState, lastAdTime, compState, lastNet, wvLoad, wvHist,
                   timers, alertOpen, exited, showLog, outcomes>>

SdkInitResult ==
    /\ JsIdle
    /\ startup = "awaitSdkInit"
    /\ granted' = "none"
    /\ \E ok \in BOOLEAN :
         IF ok
         THEN /\ startup' = "done"
              /\ adState' = "loading"          \* interstitialRef.current.load()
         ELSE /\ startup' = "failed"
              /\ adState' = adState
    /\ UNCHANGED <<clock, launch, mounted, listeners, backHandler, mountPc,
                   lastAdTime, compState, lastNet, wvLoad, wvHist,
                   timers, alertOpen, exited, showLog, outcomes>>

\* ------------------------------------------- ad events (86-111)
\* mutant: the unset case of lastAdTime forgotten
LoadedShows_UnsetSkips == lastAdTime # <<>> /\ clock - lastAdTime[1] >= CooldownMs

\* line 91, evaluated with now = Date.now() (90)
LoadedShows == CooldownElapsed(lastAdTime, clock)

AdLoaded ==
    /\ adState = "loading"
    /\ IF "LOADED" \in listeners
       THEN IF LoadedShows
            THEN /\ adState' = "showing"       \* interstitialRef.current.show()
                 /\ lastAdTime' = <<clock>>
                 /\ showLog' = Append(showLog, clock)
                 /\ outcomes' = Append(outcomes, "shown")
                 /\ UNCHANGED <<compState, wvLoad, wvHist>>
            ELSE /\ adState' = "loaded"
                 /\ showWebView' = TRUE
                 /\ isLoading' = FALSE
                 /\ outcomes' = Append(outcomes, "skipped")
                 /\ wvLoad' = WvLoadAfter(TRUE, isConnected)
                 /\ wvHist' = WvHistAfter(TRUE, isConnected)
                 /\ UNCHANGED <<lastAdTime, showLog, canGoBack, refreshing, isConnected>>
       ELSE /\ adState' = "loaded"
            /\ UNCHANGED <<lastAdTime, showLog, outcomes, compState, wvLoad, wvHist>>
    /\ UNCHANGED <<clock, launch, mounted, listeners, mountPc,
                   startup, granted, lastNet, timers, alertOpen, exited>>
    /\ backHandler' \in FlushBetweenRenders

\* the SDK's ERROR event: App registers no listener for it
AdFailedToLoad ==
    /\ adState = "loading"
    /\ adState' = "failed"
    /\ UNCHANGED <<clock, launch, mounted, listeners, backHandler, mountPc,
                   startup, granted, lastAdTime, compState, lastNet, wvLoad, wvHist,
                   timers, alertOpen, exited, showLog, outcomes>>

\* mutant: the CLOSED handler without setIsLoading(false)
AdClosed_KeepsLoading ==
    /\ adState = "showing"
    /\ IF "CLOSED" \in listeners
       THEN /\ showWebView' = TRUE
            /\ isLoading' = isLoading
            /\ adState' = "loading"            \* interstitialRef.current.load()
            /\ wvLoad' = WvLoadAfter(TRUE, isConnected)
            /\ wvHist' = WvHistAfter(TRUE, isConnected)
            /\ UNCHANGED <<canGoBack, refreshing, isConnected>>
       ELSE /\ adState' = "closed"
            /\ UNCHANGED <<compState, wvLoad, wvHist>>
    /\ UNCHANGED <<clock, launch, mounted, listeners, mountPc,
                   startup, granted, lastAdTime, lastNet, timers, alertOpen, exited,
                   showLog, outcomes>>
    /\ backHandler' \in FlushBetweenRenders

AdClosed ==
    /\ adState = "showing"
    /\ IF "CLOSED" \in listeners
       THEN /\ showWebView' = TRUE
            /\ isLoading' = FALSE
            /\ adState' = "loading"            \* interstitialRef.current.load()
            /\ wvLoad' = WvLoadAfter(TRUE, isConnected)
            /\ wvHist' = WvHistAfter(TRUE, isConnected)
            /\ UNCHANGED <<canGoBack, refreshing, isConnected>>
       ELSE /\ adState' = "closed"
            /\ UNCHANGED <<compState, wvLoad, wvHist>>
    /\ UNCHANGED <<clock, launch, mounted, listeners, mountPc,
                   startup, granted, lastAdTime, lastNet, timers, alertOpen, exited,
                   showLog, outcomes>>
    /\ backHandler' \in FlushBetweenRenders

\* ------------------------------------------- connectivity (48-50)
NetInfoEvent ==
    /\ JsIdle
    /\ "net" \in listeners
    /\ \E v \in NetValues :
         /\ isConnected' = Coalesce(v)
         /\ lastNet' = v
         /\ wvLoad' = WvLoadAfter(showWebView, Coalesce(v))
         /\ wvHist' = WvHistAfter(showWebView, Coalesce(v))
    /\ UNCHANGED <<clock, launch, mounted, listeners, mountPc,
                   startup, granted, adState, lastAdTime, showWebView, isLoading,
                   canGoBack, refreshing, timers, alertOpen, exited, showLog, outcomes>>
    /\ backHandler' = FlushPassive

\* ------------------------------------------- embedded browser (166-182)
\* the browser announces the start of a page load:
\* onLoadStart (170) and onNavigationStateChange (146-148)
WvLoadStart ==
    /\ wvLoad = "pending"
    /\ wvLoad' = "loading"
    /\ isLoading' = TRUE
    /\ canGoBack' = (wvHist > 0)
    /\ UNCHANGED <<clock, launch, mounted, listeners, mountPc,
                   startup, granted, adState, lastAdTime, showWebView, refreshing,
                   isConnected, lastNet, wvHist, timers, alertOpen, exited,
                   showLog, outcomes>>
    /\ backHandler' = FlushPassive

\* mutant: onLoadEnd also ends the refresh indicator
WvLoadEnd_ClearsRefreshing ==
    /\ wvLoad = "loading"
    /\ wvLoad' = "idle"
    /\ isLoading' = FALSE
    /\ refreshing' = FALSE
    /\ canGoBack' = (wvHist > 0)
    /\ UNCHANGED <<clock, launch, mounted, listeners, mountPc,
                   startup, granted, adState, lastAdTime, showWebView,
                   isConnected, lastNet, wvHist, timers, alertOpen, exited,
                   showLog, outcomes>>
    /\ backHandler' = FlushPassive

\* the page finished: onLoadEnd (171) and onNavigationStateChange (146-148)
WvLoadEnd ==
    /\ wvLoad = "loading"
    /\ wvLoad' = "idle"
    /\ isLoading' = FALSE
    /\ canGoBack' = (wvHist > 0)
    /\ UNCHANGED <<clock, launch, mounted, listeners, mountPc,
                   startup, granted, adState, lastAdTime, showWebView, refreshing,
                   isConnected, lastNet, wvHist, timers, alertOpen, exited,
                   showLog, outcomes>>
    /\ backHandler' = FlushPassive

\* mutant: onError also switches to the offline screen
WvError_GoesOffline ==
    /\ wvLoad \in {"pending", "loading"}
    /\ wvLoad' = "failed"
    /\ isConnected' = FALSE
    /\ isLoading' = FALSE
    /\ UNCHANGED <<clock, launch, mounted, listeners, mountPc,
                   startup, granted, adState, lastAdTime, showWebView, canGoBack,
                   refreshing, lastNet, wvHist, timers,
                   alertOpen, exited, showLog, outcomes>>
    /\ backHandler' = FlushPassive

\* the page failed to load: onError (172-176)
WvError ==
    /\ wvLoad \in {"pending", "loading"}
    /\ wvLoad' = "failed"
    /\ isLoading' = FALSE
    /\ UNCHANGED <<clock, launch, mounted, listeners, mountPc,
                   startup, granted, adState, lastAdTime, showWebView, canGoBack,
                   refreshing, isConnected, lastNet, wvHist, timers,
                   alertOpen, exited, showLog, outcomes>>
    /\ backHandler' = FlushPassive

\* the user follows a link inside the page
WvUserNavigate ==
    /\ UserCanAct /\ ~alertOpen
    /\ wvLoad # "none"
    /\ wvHist < MaxHist
    /\ wvHist' = wvHist + 1
    /\ wvLoad' = "pending"
    /\ UNCHANGED <<clock, launch, mounted, listeners, backHandler, mountPc,
                   startup, granted, adState, lastAdTime, compState, lastNet, timers,
                   alertOpen, exited, showLog, outcomes>>

\* ------------------------------------------- back button (119-144)
\* line 121: which branch backAction takes
BackBranch(show, ref, back) ==
    IF show /\ ref /\ back THEN "goBack" ELSE "alert"

\* mutant: the prompt branch lets the event through
BackActionReturns_PromptFalse(branch) == branch = "goBack"

\* lines 123 and 134: the value backAction returns in each branch
BackActionReturns(branch) == TRUE

\* mutant: the cleanup of the ad effect (113-116) missing
TearDown_KeepsAdListeners ==
    /\ mounted' = FALSE
    /\ mountPc' = "idle"
    /\ listeners' = listeners \cap {"LOADED", "CLOSED"}
    /\ backHandler' = <<>>
    /\ alertOpen' = FALSE
    /\ wvLoad' = "none"
    /\ wvHist' = 0
    /\ showWebView' = FALSE
    /\ isLoading' = TRUE
    /\ canGoBack' = FALSE
    /\ refreshing' = FALSE
    /\ isConnected' = TRUE
    /\ lastNet' = "none"

\* the component goes away: effect cleanups 81-83, 113-116 and 143 run, the
\* prompt and the embedded browser go with it, and its state is discarded
TearDown ==
    /\ mounted' = FALSE
    /\ mountPc' = "idle"
    /\ listeners' = {}
    /\ backHandler' = <<>>
    /\ alertOpen' = FALSE
    /\ wvLoad' = "none"
    /\ wvHist' = 0
    /\ showWebView' = FALSE
    /\ isLoading' = TRUE
    /\ canGoBack' = FALSE
    /\ refreshing' = FALSE
    /\ isConnected' = TRUE
    /\ lastNet' = "none"

BackPress ==
    /\ PlatformOS = "android"
    /\ "back" \in listeners /\ backHandler # <<>>
    /\ UserCanAct /\ ~alertOpen
    /\ LET h == backHandler[1]
           branch == BackBranch(h.show, WebViewRefCurrent, h.back)
       IN  IF BackActionReturns(branch)
           THEN /\ alertOpen' = (branch = "alert")
                /\ IF branch = "goBack" /\ wvHist > 0
                   THEN /\ wvHist' = wvHist - 1       \* webViewRef.current.goBack()
                        /\ wvLoad' = "pending"
                   ELSE UNCHANGED <<wvLoad, wvHist>>
                /\ UNCHANGED <<mounted, listeners, backHandler, mountPc, exited,
                               compState, lastNet>>
           ELSE /\ exited' = TRUE                     \* default: the OS exits the app
                /\ UNCHANGED <<mounted, listeners, backHandler, mountPc, alertOpen,
                               compState, lastNet, wvLoad, wvHist>>
    /\ UNCHANGED <<clock, launch, startup, granted, adState, lastAdTime,
                   timers, showLog, outcomes>>

\* 'Cancel', or dismissing the cancelable prompt
AlertCancel ==
    /\ alertOpen /\ UserCanAct
    /\ alertOpen' = FALSE
    /\ UNCHANGED <<clock, launch, mounted, listeners, backHandler, mountPc,
                   startup, granted, adState, lastAdTime, compState, lastNet, wvLoad,
                   wvHist, timers, exited, showLog, outcomes>>

\* 'Exit': the onPress of line 130 calls BackHandler.exitApp() and returns;
\* the component stays mounted with its subscriptions until the host
\* destroys the view (Unmount), if it does
AlertExit ==
    /\ alertOpen /\ UserCanAct
    /\ alertOpen' = FALSE
    /\ exited' = TRUE
    /\ UNCHANGED <<clock, launch, mounted, listeners, backHandler, mountPc,
                   startup, granted, adState, lastAdTime, compState, lastNet, wvLoad,
                   wvHist, timers, showLog, outcomes>>

\* ------------------------------------------- refresh (150-154)
\* "pull": a RefreshControl gesture (the control ignores gestures while it
\* shows refreshing); "retry": the Try Again button of the offline screen
HandleRefresh ==
    /\ UserCanAct /\ ~alertOpen
    /\ Len(timers) < MaxTimers
    /\ \E src \in {"pull", "retry"} :
         /\ src = "pull" => View \in {"webview", "offline"} /\ ~refreshing
         /\ src = "retry" => View = "offline"
    /\ refreshing' = TRUE
    /\ wvLoad' = IF WebViewRefCurrent THEN "pending" ELSE wvLoad   \* reload()
    /\ timers' = Append(timers, [left |-> RefreshWindowMs, launch |-> launch])
    /\ UNCHANGED <<clock, launch, mounted, listeners, mountPc,
                   startup, granted, adState, lastAdTime, showWebView, isLoading,
                   canGoBack, isConnected, lastNet, wvHist, alertOpen,
                   exited, showLog, outcomes>>
    /\ backHandler' = FlushPassive

\* line 153: the timer callback; a component that is gone ignores the update
TimerFire ==
    /\ JsIdle
    /\ timers # <<>>
    /\ Head(timers).left = 0
    /\ timers' = Tail(timers)
    /\ refreshing' = IF mounted /\ Head(timers).launch = launch
                     THEN FALSE ELSE refreshing
    /\ UNCHANGED <<clock, launch, mounted, listeners, mountPc,
                   startup, granted, adState, lastAdTime, showWebView, isLoading,
                   canGoBack, isConnected, lastNet, wvLoad, wvHist,
                   alertOpen, exited, showLog, outcomes>>
    /\ backHandler' = FlushPassive

\* ------------------------------------------- component lifecycle
\* the host destroys the view, after an exit request or without one
Unmount ==
    /\ mounted /\ JsIdle
    /\ TearDown
    /\ UNCHANGED <<clock, launch, startup, granted, adState, lastAdTime,
                   timers, exited, showLog, outcomes>>

\* the second mount effect (86-117): the LOADED and CLOSED listeners
RunAdEffect ==
    /\ mounted /\ mountPc = "adEffect"
    /\ listeners' = listeners \cup {"LOADED", "CLOSED"}
    /\ mountPc' = "backEffect"
    /\ UNCHANGED <<clock, launch, mounted, backHandler, startup, granted, adState,
                   lastAdTime, compState, lastNet, wvLoad, wvHist, timers,
                   alertOpen, exited, showLog, outcomes>>

\* the third mount effect (119-144): the hardware back handler
RunBackEffect ==
    /\ mounted /\ mountPc = "backEffect"
    /\ listeners' = listeners \cup {"back"}
    /\ backHandler' = Append(backHandler, [show |-> showWebView, back |-> canGoBack])
    /\ mountPc' = "idle"
    /\ UNCHANGED <<clock, launch, mounted, startup, granted, adState,
                   lastAdTime, compState, lastNet, wvLoad, wvHist, timers,
                   alertOpen, exited, showLog, outcomes>>

\* the passive effect scheduled by a render that changed showWebView or
\* canGoBack runs (119-144)
RerunBackEffect ==
    /\ PendingBackEffect
    /\ backHandler' = BackEffect
    /\ UNCHANGED <<clock, launch, mounted, mountPc, listeners, startup, granted,
                   adState, lastAdTime, compState, lastNet, wvLoad, wvHist, timers,
                   alertOpen, exited, showLog, outcomes>>

\* mutant: lastAdTime kept in the component instead of the module
Mount_ResetsLastAdTime ==
    /\ ~mounted
    /\ launch < MaxLaunches
    /\ launch' = launch + 1
    /\ mounted' = TRUE
    /\ mountPc' = "adEffect"
    /\ listeners' = {"net"}
    /\ backHandler' = <<>>
    /\ startup' = IF PlatformOS = "android" THEN "awaitPermission" ELSE "awaitSdkInit"
    /\ granted' = "none"
    /\ adState' = AdStateAtFirstAwait
    /\ showWebView' = FALSE
    /\ isLoading' = TRUE
    /\ canGoBack' = FALSE
    /\ refreshing' = FALSE
    /\ isConnected' = TRUE
    /\ lastNet' = "none"
    /\ wvLoad' = "none"
    /\ wvHist' = 0
    /\ alertOpen' = FALSE
    /\ exited' = FALSE
    /\ outcomes' = <<>>
    /\ lastAdTime' = <<>>
    /\ UNCHANGED <<clock, timers, showLog>>

\* the app is opened again in the same process: fresh component state
\* (33-45), effect 47-84 runs again; lastAdTime (30) survives
Mount ==
    /\ ~mounted
    /\ launch < MaxLaunches
    /\ launch' = launch + 1
    /\ mounted' = TRUE
    /\ mountPc' = "adEffect"
    /\ listeners' = {"net"}
    /\ backHandler' = <<>>
    /\ startup' = IF PlatformOS = "android" THEN "awaitPermission" ELSE "awaitSdkInit"
    /\ granted' = "none"
    /\ adState' = AdStateAtFirstAwait
    /\ showWebView' = FALSE
    /\ isLoading' = TRUE
    /\ canGoBack' = FALSE
    /\ refreshing' = FALSE
    /\ isConnected' = TRUE
    /\ lastNet' = "none"
    /\ wvLoad' = "none"
    /\ wvHist' = 0
    /\ alertOpen' = FALSE
    /\ exited' = FALSE
    /\ outcomes' = <<>>
    /\ UNCHANGED <<clock, lastAdTime, timers, showLog>>

Next ==
    \/ Tick
    \/ PermissionResult
    \/ SdkInitResult
    \/ AdLoaded
    \/ AdFailedToLoad
    \/ AdClosed
    \/ NetInfoEvent
    \/ WvLoadStart
    \/ WvLoadEnd
    \/ WvError
    \/ WvUserNavigate
    \/ BackPress
    \/ AlertCancel
    \/ AlertExit
    \/ HandleRefresh
    \/ TimerFire
    \/ Unmount
    \/ Mount
    \/ RunAdEffect
    \/ RunBackEffect
    \/ RerunBackEffect

Spec == Init /\ [][Next]_vars

\* the SDK answers every request, an interstitial on screen is closed at
\* some point, timers fire, the browser reports its loads and React runs
\* the effects it scheduled; nothing is
\* assumed about the user or about the host tearing the component down
FairSpec ==
    /\ Spec
    /\ WF_vars(PermissionResult)
    /\ WF_vars(SdkInitResult)
    /\ WF_vars(AdLoaded \/ AdFailedToLoad)
    /\ WF_vars(AdClosed)
    /\ WF_vars(TimerFire)
    /\ WF_vars(WvLoadStart)
    /\ WF_vars(WvLoadEnd \/ WvError)
    /\ WF_vars(RerunBackEffect)
    /\ WF_vars(RunAdEffect)
    /\ WF_vars(RunBackEffect)

TypeOK ==
    /\ clock \in Nat
    /\ launch \in 1..MaxLaunches
    /\ mounted \in BOOLEAN /\ listeners \subseteq AllListeners
    /\ mountPc \in {"adEffect", "backEffect", "idle"}
    /\ Len(backHandler) <= 1
    /\ startup \in {"awaitPermission", "awaitSdkInit", "done", "failed"}
    /\ granted \in {"none", "granted", "denied"}
    /\ adState \in {"idle", "loading", "loaded", "showing", "closed", "failed"}
    /\ Len(lastAdTime) <= 1
    /\ compState \in BOOLEAN \X BOOLEAN \X BOOLEAN \X BOOLEAN \X BOOLEAN
    /\ lastNet \in NetValues \cup {"none"}
    /\ wvLoad \in {"none", "pending", "loading", "idle", "failed"}
    /\ wvHist \in 0..MaxHist
    /\ Len(timers) <= MaxTimers
    /\ alertOpen \in BOOLEAN /\ exited \in BOOLEAN
    /\ (wvLoad # "none") = WebViewRefCurrent

\* ------------------------------------------------------------ properties
\* steps in which a registered handler runs
LoadedStep ==
    adState = "loading" /\ "LOADED" \in listeners /\ adState' \in {"showing", "loaded"}
ClosedStep == adState = "showing" /\ "CLOSED" \in listeners /\ adState' # adState
PromptStep == ~alertOpen /\ alertOpen'                \* Alert.alert (125)
GoBackStep == wvHist' < wvHist /\ wvLoad' = "pending"  \* goBack() (122)
BackStep == PromptStep \/ GoBackStep
RefreshStep == Len(timers') > Len(timers)             \* setTimeout (153)
NetStep ==
    /\ "net" \in listeners /\ lastNet' \in NetValues
    /\ UNCHANGED <<clock, launch, mounted, listeners, mountPc, startup, granted, adState,
                   lastAdTime, showWebView, isLoading, canGoBack, refreshing,
                   timers, alertOpen, exited, showLog, outcomes>>

\* C1: the LOADED handler calls show() only if lastAdTime is unset or at least
\* five minutes old; every other LOADED event shows no ad and reveals the
\* content (showWebView true, isLoading false); so any two show() calls of one
\* process are at least five minutes apart.
C1_Cooldown ==
    /\ [][LoadedStep =>
            /\ adState' = "showing" =>
                 /\ lastAdTime = <<>> \/ clock - lastAdTime[1] >= 5 * 60 * 1000
                 /\ showLog' = Append(showLog, clock)
            /\ adState' # "showing" =>
                 /\ showLog' = showLog
                 /\ showWebView' /\ ~isLoading']_vars
    /\ [](\A i, j \in DOMAIN showLog :
            i < j => showLog[j] - showLog[i] >= 5 * 60 * 1000)

\* a second show() happened, and the LOADED after it was skipped
C1_Witness ==
    /\ Len(showLog) = 2 /\ outcomes = <<"shown", "shown", "skipped">>
    /\ adState = "loaded" /\ showWebView /\ ~isLoading

\* C2 as stated: in every session showWebView goes from false to true exactly
\* once: it never falls back, and while the session lasts it does become true.
C2_SingleResolution ==
    /\ [][showWebView /\ mounted' => showWebView']_vars
    /\ [](mounted => <>(showWebView \/ ~mounted))

\* C3 as stated: a back press with showWebView and canGoBack calls goBack() and
\* shows no prompt; any other back press shows the prompt and calls no goBack().
C3_BackRouting ==
    [][BackStep =>
         IF showWebView /\ canGoBack
         THEN GoBackStep /\ ~alertOpen'
         ELSE PromptStep /\ ~GoBackStep]_vars

\* C4 as stated: after an offline notification the view is the offline screen.
C4_OfflineScreen == (mounted /\ lastNet = "false") => View = "offline"

\* C4 amended: after an offline notification the embedded browser is never
\* rendered; the offline screen is rendered exactly when showWebView is true,
\* and nothing is rendered while the gate is unresolved.
C4_OfflineRendering ==
    (mounted /\ lastNet = "false") =>
        /\ View # "webview" /\ wvLoad = "none"
        /\ showWebView => View = "offline"
        /\ ~showWebView => View = "blank"

\* the offline screen is up after the gate resolved
C4_Witness == mounted /\ lastNet = "false" /\ showWebView /\ View = "offline"

\* C5 as stated: handleRefresh while refreshing is true schedules no timer.
C5_RefreshIdempotent ==
    [][RefreshStep => ~refreshing]_vars

\* C6: in a fresh process and online, LOADED calls show() and leaves the content
\* hidden; CLOSED reveals it and mounts the embedded browser, which starts to
\* load its page; its loadStart turns isLoading on and its loadEnd turns it off.
C6_EndToEnd ==
    [][/\ (LoadedStep /\ lastAdTime = <<>>) =>
             adState' = "showing" /\ ~showWebView' /\ View' = "blank"
       /\ (ClosedStep /\ isConnected) =>
             /\ showWebView' /\ View' = "webview"
             /\ wvLoad = "none" => wvLoad' = "pending" /\ wvHist' = 0
       /\ (wvLoad = "pending" /\ wvLoad' = "loading") => isLoading'
       /\ (wvLoad = "loading" /\ wvLoad' = "idle") => ~isLoading']_vars

\* launch, LOADED, CLOSED, loadStart, loadEnd: the page is up, one ad was shown
C6_Witness ==
    /\ launch = 1 /\ outcomes = <<"shown">> /\ adState = "loading"
    /\ isConnected /\ showWebView /\ ~isLoading /\ wvLoad = "idle" /\ wvHist = 0

\* C7 as stated: per launch the LOADED handler produces at most one outcome.
C7_OneOutcome == Len(outcomes) <= 1

\* C8: showWebView is set only by the skip branch of LOADED or by CLOSED; while
\* no LOADED event has been handled in the launch, it is false and neither the
\* browser nor the offline screen is rendered.
C8_LoadFailureGap ==
    /\ [][(~showWebView /\ showWebView') =>
            (LoadedStep /\ adState' = "loaded") \/ ClosedStep]_vars
    /\ []((mounted /\ outcomes = <<>>) =>
            ~showWebView /\ View = "blank" /\ wvLoad = "none")

\* the load failed, or startup threw before load(): the gate is stuck
C8_Witness ==
    /\ mounted /\ outcomes = <<>> /\ ~showWebView
    /\ adState = "failed" \/ startup = "failed"

\* C9: a back press never exits by itself; the app exits only through 'Exit' of
\* the prompt; 'Cancel' or a dismissal closes the prompt and changes nothing else.
C9_ExitOnlyByPrompt ==
    [][/\ BackStep => ~exited' /\ mounted'
       /\ (~exited /\ exited') => alertOpen /\ ~alertOpen'
       /\ (alertOpen /\ ~alertOpen' /\ mounted' /\ ~exited') =>
            UNCHANGED <<clock, launch, mounted, listeners, backHandler, mountPc, startup, granted, adState,
                        lastAdTime, compState, lastNet, wvLoad, wvHist,
                        timers, exited, showLog, outcomes>>]_vars

\* the user left through the prompt
C9_Witness == exited /\ mounted /\ ~alertOpen

\* C10: isConnected is true before the first notification, afterwards false
\* exactly when the latest notification said false (unknown counts as online),
\* and within a mount only a notification changes it.
C10_ConnectivityFlag ==
    /\ [](mounted => (isConnected <=> lastNet # "false"))
    /\ [][(mounted /\ mounted' /\ isConnected' # isConnected) => NetStep]_vars

\* an unknown connectivity was reported and the flag is true
C10_Witness == mounted /\ lastNet = "null" /\ isConnected

TearDownStep == mounted /\ ~mounted'
TimerStep == Len(timers') < Len(timers)               \* the callback of 153 ran
ErrorStep == wvLoad # "failed" /\ wvLoad' = "failed"   \* onError (172-176)

\* C11: a denied permission continues like a granted one; load() is requested
\* only when the SDK initialization completes, once per startup; a throw of
\* the permission request or of the initialization ends startup with no load()
\* and no change of showWebView, isLoading, canGoBack, refreshing, isConnected
\* or lastAdTime.
C11_Startup ==
    /\ [][(startup = "awaitPermission" /\ startup' # startup /\ launch' = launch) =>
            /\ granted' \in {"granted", "denied"} => startup' = "awaitSdkInit"
            /\ UNCHANGED <<adState, compState, lastAdTime>>]_vars
    /\ [][(adState = "idle" /\ adState' = "loading") =>
            startup = "awaitSdkInit" /\ startup' = "done"]_vars
    /\ [][(startup # "failed" /\ startup' = "failed") =>
            UNCHANGED <<adState, compState, lastAdTime, listeners, showLog,
                        outcomes, timers>>]_vars
    /\ [](adState = "idle" <=> startup # "done")

\* the permission was denied and startup waits for the SDK initialization
C11_Witness == mounted /\ startup = "awaitSdkInit" /\ granted = "denied" /\ adState = "idle"

\* C12 as stated: while an interstitial is on screen the content is hidden.
C12_HiddenWhileShowing == (mounted /\ adState = "showing") => ~showWebView

\* C13: a preload is issued only by a CLOSED event, which needs an ad on
\* screen; CLOSED sets showWebView true and isLoading false and requests a
\* load; afterwards showWebView stays true in the session whatever becomes of
\* that load.
C13_ClosedTransition ==
    /\ [][(adState' = "loading" /\ adState \notin {"idle", "loading"}) => ClosedStep]_vars
    /\ [][ClosedStep => showWebView' /\ ~isLoading' /\ adState' = "loading"]_vars
    /\ [][(showWebView /\ mounted') =>
            showWebView' /\ View' \in {"webview", "offline"}]_vars

\* the preload issued by CLOSED failed and the content is still visible
C13_Witness ==
    /\ mounted /\ outcomes = <<"shown">> /\ adState = "failed"
    /\ showWebView /\ View = "webview"

\* C14 as stated: canGoBack only if the mounted browser has a back history.
C14_CanGoBackInvariant == canGoBack => (wvLoad # "none" /\ wvHist > 0)

\* C15: lastAdTime changes only in the show branch of LOADED, to the current
\* time; once set it is never unset and never decreases.
C15_LastAdTimeFrame ==
    /\ [][lastAdTime' # lastAdTime =>
            LoadedStep /\ adState' = "showing" /\ lastAdTime' = <<clock>>]_vars
    /\ [][lastAdTime # <<>> =>
            lastAdTime' # <<>> /\ lastAdTime'[1] >= lastAdTime[1]]_vars

\* after a remount the skip branch ran and lastAdTime is still the first show
C15_Witness ==
    /\ launch = 2 /\ mounted /\ outcomes = <<"skipped">>
    /\ Len(showLog) = 1 /\ lastAdTime = <<showLog[1]>>

\* C16 as stated: whenever a back press can reach the app exactly one
\* backAction is registered and it closes over the current showWebView and
\* canGoBack; once the component is gone none is registered.
C16_BackHandlerInstalled ==
    /\ (mounted /\ JsIdle) =>
          /\ Len(backHandler) = 1 /\ "back" \in listeners
          /\ backHandler[1] = [show |-> showWebView, back |-> canGoBack]
    /\ ~mounted => backHandler = <<>> /\ "back" \notin listeners

\* C17: teardown releases the connectivity, LOADED, CLOSED and back
\* subscriptions, so later events change no state of the app; it leaves the
\* pending refresh timers in place, and their callbacks still run.
C17_Teardown ==
    /\ [](~mounted => listeners = {} /\ backHandler = <<>>)
    /\ [][TearDownStep => timers' = timers]_vars
    /\ [][(~mounted /\ ~mounted') =>
            UNCHANGED <<compState, lastNet, lastAdTime, showLog, outcomes,
                        alertOpen, wvLoad, wvHist>>]_vars

\* the component is gone and a timer it scheduled is due
C17_Witness == ~mounted /\ timers # <<>> /\ Head(timers).left = 0

\* C18: handleRefresh sets refreshing and reloads the browser only if one is
\* mounted; only a timer callback clears refreshing (not loadEnd, a browser
\* error or a connectivity event); a callback of the current mount does clear
\* it, and one is pending whenever refreshing is true.
C18_RefreshFlag ==
    /\ [][RefreshStep =>
            /\ refreshing'
            /\ IF wvLoad = "none" THEN wvLoad' = "none" ELSE wvLoad' = "pending"]_vars
    /\ [][(refreshing /\ ~refreshing' /\ mounted') => TimerStep]_vars
    /\ [][(TimerStep /\ mounted /\ Head(timers).launch = launch) => ~refreshing']_vars
    /\ []((mounted /\ refreshing) =>
            \E i \in DOMAIN timers : timers[i].launch = launch)

\* the reload finished while the indicator is still on
C18_Witness ==
    /\ mounted /\ refreshing /\ wvLoad = "idle" /\ ~isLoading /\ timers # <<>>

\* C19: a browser error sets isLoading to false and changes nothing else; the
\* view goes on rendering the embedded browser. (The render it causes may
\* make React run a back-handler effect that was already scheduled.)
C19_BrowserError ==
    [][ErrorStep =>
         /\ ~isLoading' /\ View' = "webview"
         /\ Len(backHandler') = Len(backHandler)
         /\ UNCHANGED <<clock, launch, mounted, mountPc, listeners,
                        startup, granted, adState, lastAdTime, showWebView,
                        canGoBack, refreshing, isConnected, lastNet, wvHist,
                        timers, alertOpen, exited, showLog, outcomes>>]_vars

\* the page failed while the indicator was on
C19_Witness ==
    mounted /\ wvLoad = "failed" /\ View = "webview" /\ ~isLoading /\ isConnected

\* C20: load() is first issued with the LOADED and CLOSED listeners already
\* registered, so every LOADED event of a mounted component runs the handler.
C20_NoLostLoaded ==
    /\ []((mounted /\ adState = "loading") => {"LOADED", "CLOSED"} \subseteq listeners)
    /\ [][(mounted /\ adState = "idle" /\ adState' = "loading") =>
            JsIdle /\ {"LOADED", "CLOSED"} \subseteq listeners]_vars
    /\ [][(mounted /\ adState = "loading" /\ adState' \in {"showing", "loaded"}) =>
            LoadedStep /\ Len(outcomes') = Len(outcomes) + 1]_vars

\* the first LOADED of the second launch was handled
C20_Witness == mounted /\ launch = 2 /\ Len(outcomes) = 1

====
